---- MODULE Spec2Model ----
(***************************************************************************)
(* Model of waka-readme-stats: the fixed-width report renderer             *)
(* (sources/graphics_list_formatter.py) and the README section replacer    *)
(* (sources/manager_github.py).                                            *)
(*                                                                         *)
(* Strings are sequences of one-character strings.  A glyph of the Symbol  *)
(* enum is one code point and is written by its code point name.  A        *)
(* percent is a number of hundredths (7500 is 75.00): percents reach the   *)
(* renderers rounded to two decimals.                                      *)
(***************************************************************************)
EXTENDS Integers, Sequences, FiniteSets, TLC

VARIABLES graph, list, ghm, report

vars == <<graph, list, ghm, report>>

None == "None"

Min(a, b) == IF a <= b THEN a ELSE b

SetMin(S) == CHOOSE x \in S : \A y \in S : x <= y

SetMax(S) == CHOOSE x \in S : \A y \in S : x >= y

\* Python's  c * n  on strings: the empty string when n <= 0.
Repeat(c, n) == [i \in 1..n |-> c]

\* Python's  s[:n]  for n >= 0.
Prefix(s, n) == SubSeq(s, 1, Min(n, Len(s)))

Count(s, c) == Cardinality({i \in DOMAIN s : s[i] = c})

(***************************************************************************)
(* graphics_list_formatter.py: Symbol and make_graph                       *)
(***************************************************************************)

BarLength == 25

\* Symbol.get_symbols(version): the (filled, empty) pair of VERSION_<version>.
get_symbols(version) ==
    CASE version = 1 -> <<"U+2588", "U+2591">>
      [] version = 2 -> <<"U+28FF", "U+28C0">>
      [] version = 3 -> <<"U+2B1B", "U+2B1C">>

\* A rounding that sends every tie upwards.
percent_quart_half_up(percent) == (percent + 200) \div 400

\* round(percent / 4) with percent in hundredths: Python rounds a tie to the
\* even neighbour.
percent_quart(percent) ==
    LET q == percent \div 400
        r == percent % 400
    IN  IF r < 200 THEN q
        ELSE IF r > 200 THEN q + 1
        ELSE IF q % 2 = 0 THEN q ELSE q + 1

make_graph(percent, version) ==
    LET done_block  == get_symbols(version)[1]
        empty_block == get_symbols(version)[2]
        pq          == percent_quart(percent)
    IN  Repeat(done_block, pq) \o Repeat(empty_block, BarLength - pq)

(***************************************************************************)
(* graphics_list_formatter.py: make_list                                   *)
(***************************************************************************)

NameWidth == 25

TextWidth == 20

DigitChar(d) == <<"0", "1", "2", "3", "4", "5", "6", "7", "8", "9">>[d + 1]

RECURSIVE Digits(_)
Digits(n) == IF n < 10 THEN <<DigitChar(n)>>
             ELSE Digits(n \div 10) \o <<DigitChar(n % 10)>>

\* f"{p:05.2f}" of a non-negative percent given in hundredths: two decimals,
\* padded with zeros on the left up to a width of 5, never cut.
format_05_2f(p) ==
    LET body == Digits(p \div 100) \o <<".">>
                \o <<DigitChar((p % 100) \div 10), DigitChar(p % 10)>>
    IN  Repeat("0", 5 - Len(body)) \o body

\* [value for item in data for key, value in item.items() if key == <key>]
RECURSIVE field_values(_, _)
field_values(data, key) ==
    IF data = <<>> THEN <<>>
    ELSE (IF key \in DOMAIN Head(data) THEN <<Head(data)[key]>> ELSE <<>>)
         \o field_values(Tail(data), key)

\* list(zip(names, texts, percents)): stops at the shortest sequence.
zip3(names, texts, percents) ==
    [i \in 1..Min(Len(names), Min(Len(texts), Len(percents))) |->
        <<names[i], texts[i], percents[i]>>]

\* The number of leading records of s whose percent is at least p.
RECURSIVE LeadingAtLeast(_, _)
LeadingAtLeast(s, p) ==
    IF s = <<>> \/ Head(s)[3] < p THEN 0 ELSE 1 + LeadingAtLeast(Tail(s), p)

\* sorted(s, key=lambda record: record[2], reverse=True): stable, so records
\* of equal percent keep their input order.
RECURSIVE sorted_desc(_)
sorted_desc(s) ==
    IF s = <<>> THEN <<>>
    ELSE LET front == sorted_desc(SubSeq(s, 1, Len(s) - 1))
             last  == s[Len(s)]
             k     == LeadingAtLeast(front, last[3])
         IN  SubSeq(front, 1, k) \o <<last>> \o SubSeq(front, k + 1, Len(front))

\* Sorting the whole input and cutting afterwards.
top_data_sort_first(data, top_num, sort) ==
    IF sort THEN Prefix(sorted_desc(data), top_num) ELSE Prefix(data, top_num)

top_data_of(data, top_num, sort) ==
    IF sort THEN sorted_desc(Prefix(data, top_num)) ELSE Prefix(data, top_num)

\* One row: f"{n[:25]}{' ' * (25 - len(n))}{t}{' ' * (20 - len(t))}{make_graph(p)}   {p:05.2f} % "
format_line(record, version) ==
    LET n == record[1]
        t == record[2]
        p == record[3]
    IN  Prefix(n, NameWidth) \o Repeat(" ", NameWidth - Len(n))
        \o t \o Repeat(" ", TextWidth - Len(t))
        \o make_graph(p, version)
        \o <<" ", " ", " ">> \o format_05_2f(p) \o <<" ", "%", " ">>

\* "\n".join(lines)
RECURSIVE join(_)
join(lines) ==
    IF lines = <<>> THEN <<>>
    ELSE IF Len(lines) = 1 THEN lines[1]
    ELSE lines[1] \o <<"\n">> \o join(Tail(lines))

\* data_list of make_list: the rows of the records kept.
data_list_of(top_data, version) ==
    [i \in 1..Len(top_data) |-> format_line(top_data[i], version)]

\* make_list(names=names, texts=texts, percents=percents, top_num=top_num, sort=sort)
make_list(names, texts, percents, top_num, sort, version) ==
    join(data_list_of(top_data_of(zip3(names, texts, percents), top_num, sort), version))

(***************************************************************************)
(* graphics_list_formatter.py: make_commit_day_time_list and               *)
(* make_language_per_repo_list.                                            *)
(*                                                                         *)
(* A commit time is a number of hours since Monday 00:00 UTC of its week,  *)
(* and a time zone is a whole number of hours east of UTC.                 *)
(***************************************************************************)

DAY_TIME_EMOJI == <<"U+1F31E", "U+1F306", "U+1F303", "U+1F319">>

DAY_TIME_NAMES == <<"Morning", "Daytime", "Evening", "Night">>

WEEK_DAY_NAMES ==
    <<"Monday", "Tuesday", "Wednesday", "Thursday", "Friday", "Saturday", "Sunday">>

\* The Markdown around a table: "**", "```" and "```text\n", the backquote
\* written by its code point name.
Bold == <<"*", "*">>

Fence == <<"U+0060", "U+0060", "U+0060">>

TextFence == Fence \o <<"t", "e", "x", "t", "\n">>

\* LM.t(key): the localized text of key, one opaque element.
LM_t(key) == <<key>>

\* local_date.replace(tzinfo=utc).astimezone(timezone(time_zone))
astimezone(committedDate, time_zone) == (committedDate + time_zone) % 168

hour(date) == date % 24

isoweekday(date) == (date \div 24) + 1

RECURSIVE sum(_)
sum(s) == IF s = <<>> THEN 0 ELSE Head(s) + sum(Tail(s))

\* The inner loop: one commit after the other into day_times and week_days.
RECURSIVE tally_commits(_, _, _)
tally_commits(committed_dates, time_zone, counts) ==
    IF committed_dates = <<>> THEN counts
    ELSE LET date == astimezone(Head(committed_dates), time_zone)
             dt   == (hour(date) \div 6) + 1
             wd   == isoweekday(date)
         IN  tally_commits(Tail(committed_dates), time_zone,
                 [day_times |-> [counts.day_times EXCEPT ![dt] = @ + 1],
                  week_days |-> [counts.week_days EXCEPT ![wd] = @ + 1]])

\* The outer loop: forks are left out before it, and a repository without a
\* default branch is skipped.  defaultBranchRef is <<>> for None and else
\* holds the commit times of its history.
RECURSIVE tally_repos(_, _, _)
tally_repos(repos, time_zone, counts) ==
    IF repos = <<>> THEN counts
    ELSE IF Head(repos).isFork \/ Head(repos).defaultBranchRef = <<>>
    THEN tally_repos(Tail(repos), time_zone, counts)
    ELSE tally_repos(Tail(repos), time_zone,
                     tally_commits(Head(repos).defaultBranchRef[1], time_zone, counts))

\* The buckets left in the order they were counted in.
rotate_none(day_times) == day_times

\* day_times[1:] + day_times[:1]
rotate_left(day_times) == Tail(day_times) \o <<Head(day_times)>>

\* round(count / total * 100, 2) in hundredths, for total > 0.
percent_of(count, total) ==
    LET n == count * 10000
        q == n \div total
        r == n % total
    IN  IF 2 * r < total THEN q
        ELSE IF 2 * r > total THEN q + 1
        ELSE IF q % 2 = 0 THEN q ELSE q + 1

\* s.index(max(s)): the first position of the largest element.
index_of_max(s) == SetMin({i \in DOMAIN s : \A j \in DOMAIN s : s[i] >= s[j]})

commits_text(n) == Digits(n) \o <<" ", "c", "o", "m", "m", "i", "t", "s">>

\* make_commit_day_time_list(time_zone) for the repositories the two GraphQL
\* queries return.  The division by sum_day raises when no commit was
\* counted; day_times is then what the rotation left.
make_commit_day_time_list(repos, time_zone, show_days_of_week, version) ==
    LET counts    == tally_repos(repos, time_zone,
                                 [day_times |-> <<0, 0, 0, 0>>,
                                  week_days |-> <<0, 0, 0, 0, 0, 0, 0>>])
        week_days == counts.week_days
        sum_day   == sum(counts.day_times)
        sum_week  == sum(week_days)
        day_times == rotate_left(counts.day_times)
    IN  IF sum_day = 0
        THEN [raised |-> TRUE, day_times |-> day_times, week_days |-> week_days,
              dt_names |-> <<>>, dt_texts |-> <<>>, dt_percents |-> <<>>, stats |-> <<>>]
        ELSE
        LET dt_names    == [i \in 1..Len(day_times) |->
                               <<DAY_TIME_EMOJI[i], " ">> \o LM_t(DAY_TIME_NAMES[i])]
            dt_texts    == [i \in 1..Len(day_times) |-> commits_text(day_times[i])]
            dt_percents == [i \in 1..Len(day_times) |-> percent_of(day_times[i], sum_day)]
            title       == IF day_times[1] + day_times[2] >= day_times[3] + day_times[4]
                           THEN LM_t("I am an Early") ELSE LM_t("I am a Night")
            dt_stats    == Bold \o title \o Bold \o <<" ", "\n", "\n">> \o TextFence
                           \o make_list(dt_names, dt_texts, dt_percents, 7, FALSE, version)
                           \o <<"\n">> \o Fence \o <<"\n">>
            wd_names    == [i \in 1..7 |-> LM_t(WEEK_DAY_NAMES[i])]
            wd_texts    == [i \in 1..7 |-> commits_text(week_days[i])]
            wd_percents == [i \in 1..7 |-> percent_of(week_days[i], sum_week)]
            wd_title    == LM_t("I am Most Productive on") \o wd_names[index_of_max(wd_percents)]
            wd_stats    == <<"U+1F4C5", " ">> \o Bold \o wd_title \o Bold \o <<" ", "\n", "\n">> \o TextFence
                           \o make_list(wd_names, wd_texts, wd_percents, 7, FALSE, version)
                           \o <<"\n">> \o Fence \o <<"\n">>
        IN  [raised |-> FALSE, day_times |-> day_times, week_days |-> week_days,
             dt_names |-> dt_names, dt_texts |-> dt_texts, dt_percents |-> dt_percents,
             stats |-> IF show_days_of_week THEN dt_stats \o wd_stats ELSE dt_stats]

\* The loop over repos_with_language: language_count as the sequence of its
\* (language, count) items, in insertion order.
RECURSIVE count_languages(_, _)
count_languages(languages, language_count) ==
    IF languages = <<>> THEN language_count
    ELSE LET language == Head(languages)[1]
             at == {i \in DOMAIN language_count : language_count[i][1] = language}
         IN  count_languages(Tail(languages),
                 IF at = {} THEN Append(language_count, <<language, 1>>)
                 ELSE [language_count EXCEPT ![SetMin(at)] = <<@[1], @[2] + 1>>])

repos_text(n) ==
    Digits(n) \o (IF n = 1 THEN <<" ", "r", "e", "p", "o">> ELSE <<" ", "r", "e", "p", "o", "s">>)

\* make_language_per_repo_list(repositories), each repository given by its
\* primaryLanguage: <<>> for None, else the one name.  max() of no language
\* raises.
make_language_per_repo_list(repositories, version) ==
    LET repos_with_language == SelectSeq(repositories, LAMBDA l : l # <<>>)
        language_count == count_languages(repos_with_language, <<>>)
        names    == [i \in DOMAIN language_count |-> language_count[i][1]]
        counted  == [i \in DOMAIN language_count |-> language_count[i][2]]
        texts    == [i \in DOMAIN language_count |-> repos_text(counted[i])]
        percents == [i \in DOMAIN language_count |->
                        percent_of(counted[i], Len(repos_with_language))]
    IN  IF language_count = <<>>
        THEN [raised |-> TRUE, names |-> names, texts |-> texts, percents |-> percents,
              stats |-> <<>>]
        ELSE
        LET top_language == names[index_of_max(counted)]
            title == IF Len(repos_with_language) > 0
                     THEN Bold \o LM_t("I Mostly Code in") \o top_language \o Bold \o <<" ", "\n", "\n">>
                     ELSE <<>>
        IN  [raised |-> FALSE, names |-> names, texts |-> texts, percents |-> percents,
             stats |-> title \o TextFence
                       \o make_list(names, texts, percents, 5, TRUE, version)
                       \o <<"\n">> \o Fence \o <<"\n", "\n">>]

(***************************************************************************)
(* manager_github.py: the README section replacer.                         *)
(*                                                                         *)
(* A document is a sequence of characters in which each of the two marker  *)
(* comments is one element.  A marker starts with its only "<" and ends    *)
(* with its only ">", and the replacement starts with the start marker and *)
(* ends with the end marker, so splicing a replacement into a document     *)
(* cannot build a marker out of neighbouring characters.                   *)
(***************************************************************************)

_START_COMMENT == "<!--START_SECTION-->"

_END_COMMENT == "<!--END_SECTION-->"

IndicesOf(doc, c) == {i \in DOMAIN doc : doc[i] = c}

\* From the first start marker to the end of the document.
readme_match_to_end(doc) ==
    LET starts == IndicesOf(doc, _START_COMMENT)
        ends   == IndicesOf(doc, _END_COMMENT)
        cands  == {i \in starts : \E j \in ends : j >= i + 2}
    IN  IF cands = {} THEN <<0, 0>> ELSE <<SetMin(cands), Len(doc)>>

\* re.search of _README_REGEX, f"{_START_COMMENT}[\\s\\S]+{_END_COMMENT}": the
\* leftmost start marker that has an end marker at least one character
\* after it, and, the + being greedy, the last end marker of the document.
\* <<0, 0>> when nothing matches.  re.sub resumes after the match, where no
\* end marker is left, so it substitutes at most once.
readme_match(doc) ==
    LET starts == IndicesOf(doc, _START_COMMENT)
        ends   == IndicesOf(doc, _END_COMMENT)
        cands  == {i \in starts : \E j \in ends : j >= i + 2}
    IN  IF cands = {} THEN <<0, 0>> ELSE <<SetMin(cands), SetMax(ends)>>

AsciiLetters ==
    {"a", "b", "c", "d", "e", "f", "g", "h", "i", "j", "k", "l", "m",
     "n", "o", "p", "q", "r", "s", "t", "u", "v", "w", "x", "y", "z"}

\* The character a backslash and a letter of re's ESCAPES stand for.
EscapeChar(c) ==
    CASE c = "n" -> "\n"
      [] c = "t" -> "\t"
      [] c = "r" -> "\r"
      [] c = "f" -> "\f"
      [] c = "a" -> "U+0007"
      [] c = "b" -> "U+0008"
      [] c = "v" -> "U+000B"

Failed == [ok |-> FALSE, text |-> <<>>]

\* The index of the first ">" of s at or after position i, 0 when none.
FirstClose(s, i) ==
    LET at == {j \in i..Len(s) : s[j] = ">"}
    IN  IF at = {} THEN 0 ELSE SetMin(at)

\* re's expansion of a replacement template (sre_parse.parse_template and
\* expand_template) over the characters of the body, for a pattern without
\* groups; match is the text the pattern matched.  The template goes on
\* after the body with a newline and the end marker: a backslash that ends
\* the body stands before that newline and is kept, and a \g< with no ">"
\* left in the body takes its group name up to the ">" of the end marker,
\* newline included, which is no group name.  The only digit read is "0".
RECURSIVE expand_template(_, _)
expand_template(s, match) ==
    IF s = <<>> THEN [ok |-> TRUE, text |-> <<>>]
    ELSE IF Head(s) # "\\" THEN
        LET rest == expand_template(Tail(s), match)
        IN  IF rest.ok THEN [ok |-> TRUE, text |-> <<Head(s)>> \o rest.text] ELSE Failed
    ELSE IF Len(s) = 1 THEN [ok |-> TRUE, text |-> <<"\\">>]
    ELSE LET c == s[2] IN
        IF c = "g" THEN
            \* \g<name>: group 0 is the whole match, there is no other group
            LET close == IF Len(s) >= 3 /\ s[3] = "<" THEN FirstClose(s, 4) ELSE 0
                name  == SubSeq(s, 4, close - 1)
            IN  IF close = 0 \/ name = <<>> \/ \E i \in DOMAIN name : name[i] # "0"
                THEN Failed
                ELSE LET rest == expand_template(SubSeq(s, close + 1, Len(s)), match)
                     IN  IF rest.ok THEN [ok |-> TRUE, text |-> match \o rest.text]
                         ELSE Failed
        ELSE IF c = "0" THEN
            \* an octal escape of up to three digits: here the character NUL
            LET more == IF Len(s) >= 3 /\ s[3] = "0"
                        THEN (IF Len(s) >= 4 /\ s[4] = "0" THEN 2 ELSE 1) ELSE 0
                rest == expand_template(SubSeq(s, 3 + more, Len(s)), match)
            IN  IF rest.ok THEN [ok |-> TRUE, text |-> <<"U+0000">> \o rest.text]
                ELSE Failed
        ELSE IF c = "\\" \/ c \in {"n", "t", "r", "f", "a", "b", "v"} THEN
            LET rest == expand_template(SubSeq(s, 3, Len(s)), match)
            IN  IF rest.ok
                THEN [ok |-> TRUE,
                      text |-> <<IF c = "\\" THEN "\\" ELSE EscapeChar(c)>> \o rest.text]
                ELSE Failed
        ELSE IF c \in AsciiLetters THEN Failed   \* bad escape
        ELSE
            \* any other character: the backslash and the character are kept
            LET rest == expand_template(SubSeq(s, 3, Len(s)), match)
            IN  IF rest.ok THEN [ok |-> TRUE, text |-> <<"\\", c>> \o rest.text]
                ELSE Failed

\* GitHubManager._generate_new_readme(stats) on _README_CONTENTS = contents:
\* sub(_README_REGEX, readme_stats, contents).  The template is compiled
\* before the search, so a bad template raises whether or not the markers
\* are there.
_generate_new_readme(stats, contents) ==
    LET span  == readme_match(contents)
        match == IF span[1] = 0 THEN <<>> ELSE SubSeq(contents, span[1], span[2])
        body  == expand_template(stats, match)
    IN  IF ~body.ok THEN Failed
        ELSE IF span[1] = 0 THEN [ok |-> TRUE, text |-> contents]
        ELSE [ok |-> TRUE,
              text |-> SubSeq(contents, 1, span[1] - 1)
                       \o <<_START_COMMENT, "\n">> \o body.text \o <<"\n", _END_COMMENT>>
                       \o SubSeq(contents, span[2] + 1, Len(contents))]

(***************************************************************************)
(* Inputs of the renderers.                                                *)
(***************************************************************************)

MaxPercent == 10000

MaxLen == 2

MaxTop == 3

SymbolVersions == 1..3

RECURSIVE SeqsUpTo(_, _)
SeqsUpTo(S, n) ==
    IF n = 0 THEN {<<>>}
    ELSE LET shorter == SeqsUpTo(S, n - 1)
         IN  shorter \cup {Append(s, x) : s \in {t \in shorter : Len(t) = n - 1}, x \in S}

NameSamples == {<<"G", "o">>, Repeat("n", NameWidth + 1)}

TextSamples == {<<"1", " ", "r", "e", "p", "o">>, Repeat("t", TextWidth + 1)}

PercentSamples == {500, 7500, 10000}

\* Dictionaries as WakaTime sends them; the last one carries no "text" key.
DataSamples ==
    {[name |-> <<"G", "o">>, text |-> <<"1", " ", "h", "r">>, percent |-> 7500],
     [name |-> <<"C">>, text |-> <<"2", " ", "h", "r", "s">>, percent |-> 10000],
     [name |-> <<"R">>, percent |-> 500]}

MaxDoc == 4

MaxPieces == 3

DocChars == {_START_COMMENT, _END_COMMENT, "x"}

\* Fragments get_stats puts together (stats += ...).
StatsPieces == {<<"\\">>, <<"g">>, <<"n">>, <<"<", "0", ">">>}

RECURSIVE Flatten(_)
Flatten(pieces) == IF pieces = <<>> THEN <<>> ELSE Head(pieces) \o Flatten(Tail(pieces))

MaxRepos == 2

Time(weekday, h) == (weekday - 1) * 24 + h

\* Repositories as the queries return them: a fork, one without a default
\* branch, one without commits, and four whose commits lie on both sides
\* of each boundary between two times of day.
RepoSamples ==
    {[isFork |-> TRUE,  defaultBranchRef |-> <<(<<Time(1, 7)>>)>>],
     [isFork |-> FALSE, defaultBranchRef |-> <<>>],
     [isFork |-> FALSE, defaultBranchRef |-> <<(<<>>)>>],
     [isFork |-> FALSE, defaultBranchRef |-> <<(<<Time(1, 5), Time(1, 6)>>)>>],
     [isFork |-> FALSE, defaultBranchRef |-> <<(<<Time(2, 11), Time(2, 12)>>)>>],
     [isFork |-> FALSE, defaultBranchRef |-> <<(<<Time(3, 17), Time(3, 18)>>)>>],
     [isFork |-> FALSE, defaultBranchRef |-> <<(<<Time(7, 23), Time(1, 0)>>)>>]}

TimeZones == {-1, 0, 1}

\* primaryLanguage of a repository: <<>> for None, else its name.
LanguageSamples == {<<>>, <<(<<"G", "o">>)>>, <<(<<"C">>)>>}

GraphIdle == [pc |-> "idle", percent |-> 0, version |-> 1, bar |-> <<>>]

ListIdle == [pc |-> "idle"]

GhmIdle == [pc |-> "idle"]

ReportIdle == [pc |-> "idle"]

(***************************************************************************)
(* The progress bar renderer as a state machine: a call and its return.    *)
(***************************************************************************)

InitGraph ==
    /\ \E p \in 0..MaxPercent, v \in SymbolVersions :
         graph = [pc |-> "call", percent |-> p, version |-> v, bar |-> <<>>]
    /\ list = ListIdle
    /\ ghm = GhmIdle
    /\ report = ReportIdle

MakeGraph ==
    /\ graph.pc = "call"
    /\ graph' = [graph EXCEPT !.pc = "return",
                              !.bar = make_graph(graph.percent, graph.version)]
    /\ UNCHANGED <<list, ghm, report>>

NextGraph == MakeGraph

SpecGraph == InitGraph /\ [][NextGraph]_vars

\* C1: for every percent in [0, 100] and every glyph version, the bar that
\* make_graph returns has exactly 25 glyphs, its filled glyphs all precede
\* its empty ones, and the number k of filled glyphs is percent / 4 rounded
\* to the nearest integer, a tie going to the even one (Python's round): in
\* hundredths, |400 k - percent| <= 200, and k is even when the distance is
\* 200.  100 % gives 25 filled glyphs and 0 % gives none.
C1_BarShape ==
    graph.pc = "return" =>
        LET filled == get_symbols(graph.version)[1]
            empty  == get_symbols(graph.version)[2]
            k      == Count(graph.bar, filled)
            d      == 400 * k - graph.percent
        IN  /\ filled # empty
            /\ Len(graph.bar) = 25
            /\ graph.bar = Repeat(filled, k) \o Repeat(empty, 25 - k)
            /\ -200 <= d /\ d <= 200
            /\ (d = 200 \/ d = -200) => k % 2 = 0
            /\ graph.percent = 10000 => k = 25
            /\ graph.percent = 0 => k = 0

\* C1's case: a tie (6.00 % is 1.5 cells) rendered with two filled glyphs.
C1_Witness ==
    /\ graph.pc = "return"
    /\ graph.percent = 600
    /\ graph.version = 3
    /\ Count(graph.bar, "U+2B1B") = 2
    /\ Count(graph.bar, "U+2B1C") = 23

(***************************************************************************)
(* The tabular list renderer: a call of make_list and its return.          *)
(***************************************************************************)

ListCall(data, names, texts, percents, top_num, sort, version) ==
    [pc |-> "call", data |-> data, names |-> names, texts |-> texts,
     percents |-> percents, top_num |-> top_num, sort |-> sort,
     version |-> version, top_data |-> <<>>, data_list |-> <<>>, out |-> <<>>]

InitList ==
    /\ graph = GraphIdle
    /\ ghm = GhmIdle
    /\ report = ReportIdle
    /\ \E top_num \in 0..MaxTop, sort \in BOOLEAN, version \in SymbolVersions :
         \/ \E names \in SeqsUpTo(NameSamples, MaxLen),
               texts \in SeqsUpTo(TextSamples, MaxLen),
               percents \in SeqsUpTo(PercentSamples, MaxLen) :
              list = ListCall(None, names, texts, percents, top_num, sort, version)
         \/ \E data \in SeqsUpTo(DataSamples, MaxLen) :
              list = ListCall(data, None, None, None, top_num, sort, version)

MakeList ==
    /\ list.pc = "call"
    /\ LET names    == IF list.data # None /\ list.names = None
                       THEN field_values(list.data, "name") ELSE list.names
           texts    == IF list.data # None /\ list.texts = None
                       THEN field_values(list.data, "text") ELSE list.texts
           percents == IF list.data # None /\ list.percents = None
                       THEN field_values(list.data, "percent") ELSE list.percents
           data     == zip3(names, texts, percents)
           top_data == top_data_of(data, list.top_num, list.sort)
           data_list == data_list_of(top_data, list.version)
       IN  list' = [list EXCEPT !.pc = "return", !.names = names, !.texts = texts,
                                !.percents = percents, !.data = data,
                                !.top_data = top_data, !.data_list = data_list,
                                !.out = make_list(names, texts, percents, list.top_num,
                                                  list.sort, list.version)]
    /\ UNCHANGED <<graph, ghm, report>>

NextList == MakeList

SpecList == InitList /\ [][NextList]_vars

\* The records the caller handed in, position by position.
ListInput ==
    [i \in 1..Len(list.names) |-> <<list.names[i], list.texts[i], list.percents[i]>>]

EqualLengths ==
    /\ Len(list.names) = Len(list.texts)
    /\ Len(list.texts) = Len(list.percents)

Occurrences(s, e) == Cardinality({i \in DOMAIN s : s[i] = e})

\* C2: for equal-length names, texts and percents and every top_num >= 0,
\* make_list renders exactly min(len(input), top_num) lines, one per record
\* of the first min(len(input), top_num) records of the input and of no
\* other record (the cut comes before the sort); with sort the percents of
\* consecutive lines never increase, without sort the lines keep the input
\* order.
C2_TopWindow ==
    (list.pc = "return" /\ EqualLengths) =>
        LET k      == Min(Len(ListInput), list.top_num)
            window == SubSeq(ListInput, 1, k)
        IN  /\ Len(list.data_list) = k
            /\ Len(list.top_data) = k
            /\ k = 0 => list.out = <<>>
            /\ k > 0 => Count(list.out, "\n") = k - 1
            /\ \A i \in 1..k :
                   list.data_list[i] = format_line(list.top_data[i], list.version)
            /\ \A i \in 1..k :
                   Occurrences(list.top_data, list.top_data[i])
                       = Occurrences(window, list.top_data[i])
            /\ list.sort =>
                   \A i \in 1..(k - 1) : list.top_data[i][3] >= list.top_data[i + 1][3]
            /\ ~list.sort => list.top_data = window

\* C2's case: two records, top_num = 1, sorting asked for, and the record
\* that is cut off has the larger percent; the one line is the first record.
C2_Witness ==
    /\ list.pc = "return"
    /\ EqualLengths
    /\ list.sort
    /\ list.top_num = 1
    /\ Len(list.names) = 2
    /\ list.percents[2] > list.percents[1]
    /\ Len(list.data_list) = 1
    /\ list.top_data = <<ListInput[1]>>

\* C3, as claimed: every line make_list renders is 82 characters wide,
\* whatever the name, the text and the percent.
C3_FixedWidth82 ==
    list.pc = "return" =>
        \A i \in DOMAIN list.data_list :
            Len(list.data_list[i]) = NameWidth + TextWidth + BarLength + 3 + 6 + 3

\* C9, as claimed: make_list rejects names, texts and percents of different
\* lengths before it formats any line, so no line is ever rendered from them.
C9_MismatchRejected ==
    ~EqualLengths => list.data_list = <<>>

(***************************************************************************)
(* The README update: main() downloads the README (prepare_github_env),    *)
(* calls update_readme with the statistics, and the scheduled workflow     *)
(* runs it all once more with the same statistics.                         *)
(***************************************************************************)

InitReadme ==
    /\ graph = GraphIdle
    /\ list = ListIdle
    /\ report = ReportIdle
    /\ \E doc \in SeqsUpTo(DocChars, MaxDoc), pieces \in SeqsUpTo(StatsPieces, MaxPieces) :
         ghm = [pc |-> "start", rerun |-> FALSE, repo_readme |-> doc,
                stats |-> Flatten(pieces), _README_CONTENTS |-> <<>>,
                new_readme |-> <<>>, updated |-> FALSE]

\* prepare_github_env: _README_CONTENTS is the README of the repository.
PrepareGithubEnv ==
    /\ ghm.pc = "start"
    /\ ghm' = [ghm EXCEPT !.pc = "prepared", !._README_CONTENTS = ghm.repo_readme,
                          !.new_readme = <<>>, !.updated = FALSE]
    /\ UNCHANGED <<graph, list, report>>

\* update_readme(stats) on _README_CONTENTS = contents: it raises when
\* re.sub does; else it returns whether the new README differs, which is
\* also when it writes the new README to the repository.
update_readme(stats, contents) ==
    LET new_readme == _generate_new_readme(stats, contents)
    IN  [raised |-> ~new_readme.ok, new_readme |-> new_readme.text,
         returns |-> new_readme.ok /\ new_readme.text # contents]

UpdateReadme ==
    /\ ghm.pc = "prepared"
    /\ LET call == update_readme(ghm.stats, ghm._README_CONTENTS)
       IN  IF call.raised
           THEN ghm' = [ghm EXCEPT !.pc = "raised"]
           ELSE ghm' = [ghm EXCEPT !.pc = "done", !.new_readme = call.new_readme,
                                   !.updated = call.returns,
                                   !.repo_readme = IF call.returns THEN call.new_readme
                                                   ELSE ghm.repo_readme]
    /\ UNCHANGED <<graph, list, report>>

\* The workflow's next scheduled run.
Rerun ==
    /\ ghm.pc \in {"done", "raised"}
    /\ ~ghm.rerun
    /\ ghm' = [ghm EXCEPT !.pc = "start", !.rerun = TRUE]
    /\ UNCHANGED <<graph, list, report>>

NextReadme == PrepareGithubEnv \/ UpdateReadme \/ Rerun

SpecReadme == InitReadme /\ [][NextReadme]_vars

Contains(s, part) ==
    \E i \in 0..(Len(s) - Len(part)) : SubSeq(s, i + 1, i + Len(part)) = part

\* The document has a start marker with an end marker somewhere after it.
HasMarkerPair(doc) ==
    \E i \in IndicesOf(doc, _START_COMMENT) : \E j \in IndicesOf(doc, _END_COMMENT) : i < j

\* Each marker exactly once, the start marker first.
MarkersOnceInOrder(doc) ==
    /\ Cardinality(IndicesOf(doc, _START_COMMENT)) = 1
    /\ Cardinality(IndicesOf(doc, _END_COMMENT)) = 1
    /\ HasMarkerPair(doc)

\* C4, as claimed: applying the same body to a document that is itself the
\* result of applying it changes nothing, so update_readme reports no
\* change on the second run.
C4_SecondRunUnchanged ==
    (ghm.rerun /\ ghm.pc = "done") =>
        /\ ghm.new_readme = ghm._README_CONTENTS
        /\ ~ghm.updated

\* C5, as claimed, for the documents in which the section is found: the new
\* README holds the start marker, a newline, the body character for
\* character, a newline and the end marker, one after the other.
C5_BodyVerbatim ==
    (ghm.pc = "done" /\ readme_match(ghm._README_CONTENTS)[1] # 0) =>
        Contains(ghm.new_readme,
                 <<_START_COMMENT, "\n">> \o ghm.stats \o <<"\n", _END_COMMENT>>)

\* C6, as claimed: what update_readme reports for a README without the
\* marker pair differs from what it reports for every README that has the
\* markers and already holds the regenerated section.
C6_MarkerNotFoundDistinct ==
    (ghm.pc = "done" /\ ~HasMarkerPair(ghm._README_CONTENTS)) =>
        \A doc \in SeqsUpTo(DocChars, MaxDoc) :
            LET published == _generate_new_readme(ghm.stats, doc)
            IN  (/\ published.ok
                 /\ HasMarkerPair(published.text)
                 /\ ~update_readme(ghm.stats, published.text).raised
                 /\ update_readme(ghm.stats, published.text).new_readme = published.text)
                => update_readme(ghm.stats, published.text).returns # ghm.updated

\* C7: when the README holds each marker exactly once and in order, the new
\* README that _generate_new_readme returns starts with the text that stood
\* before the start marker, followed by the start marker, and ends with the
\* end marker followed by the text that stood after it.
C7_OutsideUntouched ==
    (ghm.pc = "done" /\ MarkersOnceInOrder(ghm._README_CONTENTS)) =>
        LET old    == ghm._README_CONTENTS
            new    == ghm.new_readme
            i      == SetMin(IndicesOf(old, _START_COMMENT))
            j      == SetMin(IndicesOf(old, _END_COMMENT))
            before == SubSeq(old, 1, i - 1)
            after  == SubSeq(old, j + 1, Len(old))
        IN  /\ Len(new) >= Len(before) + Len(after) + 2
            /\ SubSeq(new, 1, i - 1) = before
            /\ new[i] = _START_COMMENT
            /\ new[Len(new) - Len(after)] = _END_COMMENT
            /\ SubSeq(new, Len(new) - Len(after) + 1, Len(new)) = after

\* C7's case: a section with text before it is replaced.
C7_Witness ==
    /\ ghm.pc = "done"
    /\ ghm._README_CONTENTS = <<"x", _START_COMMENT, "x", _END_COMMENT>>
    /\ ghm.stats = <<"n", "g">>
    /\ ghm.new_readme = <<"x", _START_COMMENT, "\n", "n", "g", "\n", _END_COMMENT>>
    /\ ghm.updated

(***************************************************************************)
(* The two reports of get_stats: one call of either and its outcome.       *)
(***************************************************************************)

InitReport ==
    /\ graph = GraphIdle
    /\ list = ListIdle
    /\ ghm = GhmIdle
    /\ \E version \in SymbolVersions :
         \/ \E repos \in SeqsUpTo(RepoSamples, MaxRepos), time_zone \in TimeZones,
               show \in BOOLEAN :
              report = [pc |-> "call", fn |-> "make_commit_day_time_list",
                        repos |-> repos, time_zone |-> time_zone,
                        SHOW_DAYS_OF_WEEK |-> show, version |-> version,
                        result |-> <<>>]
         \/ \E repositories \in SeqsUpTo(LanguageSamples, MaxRepos + 1) :
              report = [pc |-> "call", fn |-> "make_language_per_repo_list",
                        repositories |-> repositories, version |-> version,
                        result |-> <<>>]

MakeCommitDayTimeList ==
    /\ report.pc = "call"
    /\ report.fn = "make_commit_day_time_list"
    /\ LET result == make_commit_day_time_list(report.repos, report.time_zone,
                                               report.SHOW_DAYS_OF_WEEK, report.version)
       IN  report' = [report EXCEPT !.pc = IF result.raised THEN "raised" ELSE "return",
                                    !.result = result]
    /\ UNCHANGED <<graph, list, ghm>>

MakeLanguagePerRepoList ==
    /\ report.pc = "call"
    /\ report.fn = "make_language_per_repo_list"
    /\ LET result == make_language_per_repo_list(report.repositories, report.version)
       IN  report' = [report EXCEPT !.pc = IF result.raised THEN "raised" ELSE "return",
                                    !.result = result]
    /\ UNCHANGED <<graph, list, ghm>>

NextReport == MakeCommitDayTimeList \/ MakeLanguagePerRepoList

SpecReport == InitReport /\ [][NextReport]_vars

\* The commit times make_commit_day_time_list is given, over all
\* repositories that are no fork and have a default branch.
RECURSIVE CommitsOf(_)
CommitsOf(repos) ==
    IF repos = <<>> THEN <<>>
    ELSE (IF ~Head(repos).isFork /\ Head(repos).defaultBranchRef # <<>>
          THEN Head(repos).defaultBranchRef[1] ELSE <<>>)
         \o CommitsOf(Tail(repos))

\* How many of the commits have their localized hour in lo..hi.
CommitsInHours(lo, hi) ==
    LET commits == CommitsOf(report.repos)
    IN  Cardinality({i \in DOMAIN commits :
            LET h == hour(astimezone(commits[i], report.time_zone))
            IN  lo <= h /\ h <= hi})

\* No event on the axis of the report: no commit counted, or no repository
\* with a primary language.
ZeroEvents ==
    IF report.fn = "make_commit_day_time_list"
    THEN CommitsOf(report.repos) = <<>>
    ELSE \A i \in DOMAIN report.repositories : report.repositories[i] = <<>>

\* C8, as claimed: with zero events on its axis a report function returns
\* (an empty or "no activity" result) and does not raise.
C8_ZeroTotalReturns ==
    (report.pc \in {"return", "raised"} /\ ZeroEvents) => report.pc = "return"

\* C10: every commit is counted in exactly one bucket, and after the
\* rotation day_times holds, in this order, the numbers of commits whose
\* localized hour is in 6..11, 12..17, 18..23 and 0..5, which add up to the
\* number of commits; when the table is rendered, these are the counts
\* shown next to Morning, Daytime, Evening and Night.
C10_DayTimeRows ==
    (report.fn = "make_commit_day_time_list" /\ report.pc \in {"return", "raised"}) =>
        LET expected == <<CommitsInHours(6, 11), CommitsInHours(12, 17),
                          CommitsInHours(18, 23), CommitsInHours(0, 5)>>
            labels   == <<"Morning", "Daytime", "Evening", "Night">>
            result   == report.result
        IN  /\ result.day_times = expected
            /\ sum(expected) = Len(CommitsOf(report.repos))
            /\ report.pc = "return" =>
                 \A i \in 1..4 :
                     /\ result.dt_names[i] = <<DAY_TIME_EMOJI[i], " ", labels[i]>>
                     /\ result.dt_texts[i] = commits_text(expected[i])
                     /\ Contains(result.stats,
                                 <<DAY_TIME_EMOJI[i], " ", labels[i]>> \o Repeat(" ", 22)
                                 \o commits_text(expected[i]) \o <<" ">>)

\* C10's case: a commit at 05:00 and one at 06:00 local time are shown as
\* one Night commit and one Morning commit.
C10_Witness ==
    /\ report.pc = "return"
    /\ report.fn = "make_commit_day_time_list"
    /\ report.time_zone = 0
    /\ CommitsOf(report.repos) = <<Time(1, 5), Time(1, 6)>>
    /\ report.result.day_times = <<1, 0, 0, 1>>

(***************************************************************************)
(* The whole program: any of the four parts.                               *)
(***************************************************************************)

Init == InitGraph \/ InitList \/ InitReadme \/ InitReport

Next == NextGraph \/ NextList \/ NextReadme \/ NextReport

Spec == Init /\ [][Next]_vars

====
